---- MODULE Spec2Model ----
(***************************************************************************)
(* The adaptive transcoding session manager of server/stream.py: the       *)
(* session registry (sessions, sessions_lock), the StreamSession object    *)
(* (start, ffmpeg_failed, has_segments, kill), the request handlers        *)
(* (start, playlist, segment, stop), the cleanup loop, the keyframe        *)
(* resolver and the encode plan built by StreamSession.start().            *)
(***************************************************************************)
EXTENDS Integers, Sequences, FiniteSets, TLC

\* ------------------------------------------------------------------ bounds
\* request workers that may run handlers concurrently
NumWorkers == 2
\* sessions created over a run: no request is started, and no transcoder
\* spawned, once MaxStarts session ids are allocated
MaxStarts == 2
\* config transcoding.max_sessions of the modelled deployment
MaxSessions == 1
\* the clock advances in steps of TickStep seconds up to MaxTime
TickStep == 301
MaxTime == 301

\* chunks in which the transcoder writes a segment file
SegChunks == 2
\* largest seek target handed to the keyframe resolver, in tenths of a second
KfMaxTarget == 3
\* most lines in the packet listing the resolver parses
KfMaxLines == 2
\* most characters after the leading "/" in a real path handed to the path
\* validation
PathMaxLen == 4
\* sizes a segment file that never stops growing goes through: one more
\* than the reads of the size the segment handler can make
GrowMax == 51

\* ------------------------------------------------------- program constants
\* _cleanup_loop: idle = now - sess.last_access > 300
IdleTTL == 300
\* segment: for _ in range(300), waiting for the file to appear
SegPollMax == 300
\* segment: for _ in range(50), waiting for the size to settle
StablePollMax == 50
\* _find_keyframe_time, in tenths of a second: probe_start =
\* max(0, target_time - 30)
KfWindow == 300
\* _find_keyframe_time: -read_intervals ends at target_time + 0.5
KfReadAhead == 5
\* _find_keyframe_time: if pts <= target_time + 0.1
KfTolerance == 1

Workers == 1..NumWorkers
\* process 0 is the cleanup thread
Sweeper == 0
Procs == 0..NumWorkers
\* session ids (uuid4 strings: fresh on every allocation); 0 stands for
\* "no session" (None, or an empty replace parameter)
Ids == 1..MaxStarts

VARIABLES
    sessions,   \* the registry dict: the set of registered session ids
    S,          \* the StreamSession objects, by id
    nalloc,     \* session ids allocated so far
    lock,       \* holders of sessions_lock: {} or {p}
    pc,         \* each thread's position
    L,          \* each thread's locals
    now         \* time.time()

vars == <<sessions, S, nalloc, lock, pc, L, now>>

\* ------------------------------------------------------------ StreamSession
\* an id that has not been allocated yet
NoSession ==
    [proc |-> "none", dir |-> FALSE, segs |-> FALSE, segsize |-> 0,
     log |-> FALSE, errfp |-> "unset", last |-> 0,
     ever |-> FALSE, terms |-> 0, rms |-> 0, pops |-> 0, kills |-> 0,
     reg |-> FALSE]

\* StreamSession.start() with the transcoder spawned: working directory and
\* log created, process running, log handle kept in _errfp
Spawned(t) ==
    [NoSession EXCEPT !.proc = "run", !.dir = TRUE, !.log = TRUE,
                      !.errfp = "open", !.last = t]

\* StreamSession.start() raising: at makedirs (nothing created) or at Popen
\* (directory and log created, no process, _errfp never assigned)
SpawnFailed(t, mode) ==
    IF mode = "makedirs"
    THEN [NoSession EXCEPT !.last = t]
    ELSE [NoSession EXCEPT !.dir = TRUE, !.log = TRUE, !.last = t]

SpawnOutcomes == {"ok", "makedirs", "popen"}

\* has_segments(): the manifest in the working directory holds "#EXTINF:"
\* (OSError, e.g. a deleted directory, reads as False)
has_segments(s) == s.dir /\ s.segs

\* ffmpeg_failed() without the has_segments() test: any non-zero exit counts
ffmpeg_failed_any_exit(s) ==
    s.proc \in {"none", "err"}

\* ffmpeg_failed()
ffmpeg_failed(s) ==
    IF s.proc = "none" THEN TRUE
    ELSE IF s.proc = "err" THEN ~has_segments(s)
    ELSE FALSE

\* is_alive(): running, or exited with code 0
is_alive(s) == s.proc \in {"run", "ok"}

\* ---------------------------------------------------------------- locals
NoLocals ==
    [op |-> "none", rep |-> 0, sid |-> 0, new |-> 0, replaced |-> 0,
     status |-> 0, kt |-> 0, ret |-> "none", to_kill |-> {},
     polls |-> 0, spolls |-> 0, prev_size |-> -1, sent |-> 0,
     args |-> <<>>, result |-> <<>>, body |-> "none",
     atcap |-> FALSE, partial |-> FALSE, probes |-> "none"]

Init ==
    /\ sessions = {}
    /\ S = [i \in Ids |-> NoSession]
    /\ nalloc = 0
    /\ lock = {}
    /\ pc = [p \in Procs |-> IF p = Sweeper THEN "sw_sleep" ELSE "idle"]
    /\ L = [p \in Procs |-> NoLocals]
    /\ now = 0

\* ------------------------------------------------------- the environment
\* time passes
Tick ==
    /\ now + TickStep <= MaxTime
    /\ now' = now + TickStep
    /\ UNCHANGED <<sessions, S, nalloc, lock, pc, L>>

\* the transcoder writes a manifest with (one more) segment entry
SegmentProduced(i) ==
    /\ S[i].proc = "run"
    /\ S[i].dir
    /\ ~S[i].segs
    /\ S' = [S EXCEPT ![i].segs = TRUE, ![i].ever = TRUE]
    /\ UNCHANGED <<sessions, nalloc, lock, pc, L, now>>

\* the transcoder exits by itself with code 0
ExitClean(i) ==
    /\ S[i].proc = "run"
    /\ S' = [S EXCEPT ![i].proc = "ok"]
    /\ UNCHANGED <<sessions, nalloc, lock, pc, L, now>>

\* the transcoder exits by itself with a non-zero code
ExitError(i) ==
    /\ S[i].proc = "run"
    /\ S' = [S EXCEPT ![i].proc = "err"]
    /\ UNCHANGED <<sessions, nalloc, lock, pc, L, now>>

Env ==
    \/ Tick
    \/ \E i \in Ids : SegmentProduced(i)
    \/ \E i \in Ids : ExitClean(i)
    \/ \E i \in Ids : ExitError(i)

\* ------------------------------------------------------------ sessions_lock
\* the positions at which a thread's next statement is "with sessions_lock:"
LockPcs == {"st_pop", "st_cap", "st_ins", "sp_pop", "sw_sleep"}

\* a thread enters "with sessions_lock:" and is not through the block yet.
\* The actions that model a block take the lock if the thread does not hold
\* it, run the block and release the lock.
Acquire(p) ==
    /\ pc[p] \in LockPcs
    /\ lock = {}
    /\ lock' = {p}
    /\ UNCHANGED <<sessions, S, nalloc, pc, L, now>>

\* ------------------------------------------------------ StreamSession.kill
\* entering kill() on session i, to continue at ret afterwards
CallKill(p, i, ret, loc) ==
    /\ L' = [loc EXCEPT ![p].kt = i, ![p].ret = ret]
    /\ pc' = [pc EXCEPT ![p] = "k_proc"]

\* kill() as run by one caller at a time, in the two steps other threads can
\* tell apart.  Lines 251-264: _errfp closed; a process still running gets
\* terminate(), wait(timeout=5) and, on timeout, kill(): it ends with a
\* non-zero code
KillProcess(p) ==
    /\ pc[p] = "k_proc"
    /\ LET i == L[p].kt
           running == S[i].proc = "run"
       IN S' = [S EXCEPT ![i].errfp = IF @ = "unset" THEN @ ELSE "closed",
                         ![i].kills = @ + 1,
                         ![i].terms = IF running THEN @ + 1 ELSE @,
                         ![i].proc = IF running THEN "err" ELSE @]
    /\ pc' = [pc EXCEPT ![p] = "k_files"]
    /\ UNCHANGED <<sessions, nalloc, lock, L, now>>

\* lines 265-270: rmtree of the working directory if it is there, unlink of
\* the log (OSError swallowed); return
KillFiles(p) ==
    /\ pc[p] = "k_files"
    /\ LET i == L[p].kt IN
       S' = [S EXCEPT ![i].rms = IF S[i].dir THEN @ + 1 ELSE @,
                      ![i].dir = FALSE, ![i].segs = FALSE,
                      ![i].segsize = 0, ![i].log = FALSE]
    /\ pc' = [pc EXCEPT ![p] = L[p].ret]
    /\ L' = [L EXCEPT ![p].kt = 0, ![p].ret = "none"]
    /\ UNCHANGED <<sessions, nalloc, lock, now>>

Kill(p) ==
    \/ KillProcess(p)
    \/ KillFiles(p)

KillPcs == {"k_proc", "k_files"}

\* kill() statement by statement, for callers whose steps interleave on one
\* session
\* lines 251-256: close _errfp if set; is there a process still running?
KillClose(p) ==
    /\ pc[p] = "k_close"
    /\ LET i == L[p].kt IN
       /\ S' = [S EXCEPT ![i].errfp = IF @ = "unset" THEN @ ELSE "closed",
                         ![i].kills = @ + 1]
       /\ pc' = [pc EXCEPT ![p] =
                    IF S[i].proc = "run" THEN "k_term" ELSE "k_isdir"]
    /\ UNCHANGED <<sessions, nalloc, lock, L, now>>

\* line 258: process.terminate() (Popen.send_signal polls first: no signal
\* is sent to a process that already exited)
KillTerminate(p) ==
    /\ pc[p] = "k_term"
    /\ LET i == L[p].kt IN
       S' = [S EXCEPT ![i].terms = IF S[i].proc = "run" THEN @ + 1 ELSE @]
    /\ pc' = [pc EXCEPT ![p] = "k_wait"]
    /\ UNCHANGED <<sessions, nalloc, lock, L, now>>

\* lines 261-264: wait(timeout=5), then process.kill(): the process is gone
\* (exit code non-zero: ended by the signal) unless it had exited before
KillWait(p) ==
    /\ pc[p] = "k_wait"
    /\ LET i == L[p].kt IN
       S' = [S EXCEPT ![i].proc = IF @ = "run" THEN "err" ELSE @]
    /\ pc' = [pc EXCEPT ![p] = "k_isdir"]
    /\ UNCHANGED <<sessions, nalloc, lock, L, now>>

\* line 265: os.path.isdir(self.dir)
KillIsDir(p) ==
    /\ pc[p] = "k_isdir"
    /\ pc' = [pc EXCEPT ![p] =
                 IF S[L[p].kt].dir THEN "k_rmtree" ELSE "k_unlink"]
    /\ UNCHANGED <<sessions, S, nalloc, lock, L, now>>

\* line 266: shutil.rmtree(self.dir, ignore_errors=True)
KillRmtree(p) ==
    /\ pc[p] = "k_rmtree"
    /\ LET i == L[p].kt IN
       S' = [S EXCEPT ![i].dir = FALSE, ![i].segs = FALSE,
                      ![i].segsize = 0, ![i].rms = @ + 1]
    /\ pc' = [pc EXCEPT ![p] = "k_unlink"]
    /\ UNCHANGED <<sessions, nalloc, lock, L, now>>

\* lines 267-270: os.unlink(self.error_log), OSError swallowed; return
KillUnlink(p) ==
    /\ pc[p] = "k_unlink"
    /\ S' = [S EXCEPT ![L[p].kt].log = FALSE]
    /\ pc' = [pc EXCEPT ![p] = L[p].ret]
    /\ L' = [L EXCEPT ![p].kt = 0, ![p].ret = "none"]
    /\ UNCHANGED <<sessions, nalloc, lock, now>>

KillStmt(p) ==
    \/ KillClose(p)
    \/ KillTerminate(p)
    \/ KillWait(p)
    \/ KillIsDir(p)
    \/ KillRmtree(p)
    \/ KillUnlink(p)

\* ------------------------------------------------------------ start handler
\* pathnames as character sequences; root is the real path of the media root
RootReal == <<"/", "m">>

\* what os.path.realpath(os.path.join(root, path.lstrip("/"))) and
\* os.path.isfile can yield for a request: a file under the root, a missing
\* file under the root, a file in a sibling directory whose name begins with
\* the root's name, a file elsewhere, the root directory itself (no path
\* parameter: path defaults to "")
Files ==
    { [real |-> <<"/", "m", "/", "a">>, isfile |-> TRUE],
      [real |-> <<"/", "m", "/", "x">>, isfile |-> FALSE],
      [real |-> <<"/", "m", "2", "/", "a">>, isfile |-> TRUE],
      [real |-> <<"/", "e", "/", "a">>, isfile |-> TRUE],
      [real |-> RootReal, isfile |-> FALSE] }

\* str.startswith
startswith(s, prefix) ==
    /\ Len(s) >= Len(prefix)
    /\ SubSeq(s, 1, Len(prefix)) = prefix

\* lines 352-356: 403 unless filepath.startswith(os.path.realpath(root)),
\* 404 unless os.path.isfile(filepath); 0 stands for going on
path_status(f) ==
    IF ~startswith(f.real, RootReal) THEN 403
    ELSE IF ~f.isfile THEN 404
    ELSE 0

\* lines 344-347: int(audio), float(start), int(sub) when sub is not empty;
\* a value that does not parse raises ValueError
parse_raises(q) ==
    \/ q.audio = "bad"
    \/ q.start = "bad"
    \/ q.sub = "bad"

\* lines 341-356: no handler catches the ValueError, which Flask answers
\* with 500; then the path validation
request_status(q) ==
    IF parse_raises(q) THEN 500 ELSE path_status(q)

\* the requests the start handler is given in the system: the audio
\* parameter parses or not, on each of the files
StartQueries ==
    { [audio |-> a, start |-> "absent", sub |-> "absent",
       path |-> IF f.real = RootReal THEN "absent" ELSE "given",
       real |-> f.real, isfile |-> f.isfile] :
        a \in {"int", "bad"}, f \in Files }

\* the validation of a start request, by itself
StartPath(w) ==
    /\ pc[w] = "pv_call"
    /\ L' = [L EXCEPT ![w].status = request_status(L[w].args)]
    /\ pc' = [pc EXCEPT ![w] = "done"]
    /\ UNCHANGED <<sessions, S, nalloc, lock, now>>

\* StartReq with the replaced session popped before the path is validated
StartReqPopFirst(w) ==
    /\ pc[w] = "idle"
    /\ nalloc < MaxStarts
    /\ \E rep \in 0..nalloc, q \in StartQueries :
         LET status == request_status(q)
         IN /\ L' = [L EXCEPT ![w] = [NoLocals EXCEPT !.op = "start",
                                         !.rep = rep, !.status = status]]
            /\ pc' = [pc EXCEPT ![w] =
                         IF status # 0 THEN "done"
                         ELSE IF rep # 0 THEN "st_pop"
                         ELSE "st_cap"]
            /\ sessions' = sessions \ {rep}
    /\ UNCHANGED <<S, nalloc, lock, now>>

\* lines 341-356: parameters and path validation
StartReq(w) ==
    /\ pc[w] = "idle"
    /\ nalloc < MaxStarts
    /\ \E rep \in 0..nalloc, q \in StartQueries :
         LET status == request_status(q)
         IN /\ L' = [L EXCEPT ![w] = [NoLocals EXCEPT !.op = "start",
                                         !.rep = rep, !.status = status]]
            /\ pc' = [pc EXCEPT ![w] =
                         IF status # 0 THEN "done"
                         ELSE IF rep # 0 THEN "st_pop"
                         ELSE "st_cap"]
    /\ UNCHANGED <<sessions, S, nalloc, lock, now>>

\* StartPop reading the replaced session with sessions.get: it is killed but
\* stays registered
StartPopGet(w) ==
    /\ pc[w] = "st_pop"
    /\ lock \subseteq {w}
    /\ LET rep == L[w].rep
           found == rep \in sessions
           loc == [L EXCEPT ![w].replaced = IF found THEN rep ELSE 0,
                            ![w].atcap = found /\ Cardinality(sessions) = MaxSessions]
       IN /\ sessions' = sessions
          /\ S' = IF found THEN [S EXCEPT ![rep].pops = @ + 1] ELSE S
          /\ IF found
             THEN CallKill(w, rep, "st_cap", loc)
             ELSE /\ L' = loc
                  /\ pc' = [pc EXCEPT ![w] = "st_cap"]
    /\ lock' = {}
    /\ UNCHANGED <<nalloc, now>>

\* StartPop without replaced_sess.kill(): the session is popped and left
StartPopNoKill(w) ==
    /\ pc[w] = "st_pop"
    /\ lock \subseteq {w}
    /\ LET rep == L[w].rep
           found == rep \in sessions
       IN /\ sessions' = sessions \ {rep}
          /\ S' = IF found THEN [S EXCEPT ![rep].pops = @ + 1] ELSE S
          /\ L' = [L EXCEPT ![w].replaced = IF found THEN rep ELSE 0,
                            ![w].atcap = found /\ Cardinality(sessions) = MaxSessions]
          /\ pc' = [pc EXCEPT ![w] = "st_cap"]
    /\ lock' = {}
    /\ UNCHANGED <<nalloc, now>>

\* lines 361-364: under the lock, replaced_sess = sessions.pop(replace_sid,
\* None); after it, replaced_sess.kill() if one was popped
StartPop(w) ==
    /\ pc[w] = "st_pop"
    /\ lock \subseteq {w}
    /\ LET rep == L[w].rep
           found == rep \in sessions
           loc == [L EXCEPT ![w].replaced = IF found THEN rep ELSE 0,
                            ![w].atcap = found /\ Cardinality(sessions) = MaxSessions]
       IN /\ sessions' = sessions \ {rep}
          /\ S' = IF found THEN [S EXCEPT ![rep].pops = @ + 1] ELSE S
          /\ IF found
             THEN CallKill(w, rep, "st_cap", loc)
             ELSE /\ L' = loc
                  /\ pc' = [pc EXCEPT ![w] = "st_cap"]
    /\ lock' = {}
    /\ UNCHANGED <<nalloc, now>>

\* StartCap counting only the sessions whose process is running
StartCapRunningOnly(w) ==
    /\ pc[w] = "st_cap"
    /\ lock \subseteq {w}
    /\ IF Cardinality({i \in sessions : S[i].proc = "run"}) >= MaxSessions
       THEN /\ L' = [L EXCEPT ![w].status = 429]
            /\ pc' = [pc EXCEPT ![w] = "done"]
       ELSE /\ L' = L
            /\ pc' = [pc EXCEPT ![w] = "st_spawn"]
    /\ lock' = {}
    /\ UNCHANGED <<sessions, S, nalloc, now>>

\* lines 367-370: under the lock, the capacity check
StartCap(w) ==
    /\ pc[w] = "st_cap"
    /\ lock \subseteq {w}
    /\ IF Cardinality(sessions) >= MaxSessions
       THEN /\ L' = [L EXCEPT ![w].status = 429]
            /\ pc' = [pc EXCEPT ![w] = "done"]
       ELSE /\ L' = L
            /\ pc' = [pc EXCEPT ![w] = "st_spawn"]
    /\ lock' = {}
    /\ UNCHANGED <<sessions, S, nalloc, now>>

\* StartSpawn going on to the registration when start() raised
StartSpawnUnchecked(w) ==
    /\ pc[w] = "st_spawn"
    /\ nalloc < MaxStarts
    /\ nalloc' = nalloc + 1
    /\ LET i == nalloc + 1
           loc == [L EXCEPT ![w].new = i, ![w].probes = "started"]
       IN \E mode \in SpawnOutcomes :
            /\ S' = [S EXCEPT ![i] = IF mode = "ok" THEN Spawned(now)
                                     ELSE SpawnFailed(now, mode)]
            /\ L' = loc
            /\ pc' = [pc EXCEPT ![w] = "st_ins"]
    /\ UNCHANGED <<sessions, lock, now>>

\* StartSpawn without sess.kill() after start() raised
StartSpawnNoKill(w) ==
    /\ pc[w] = "st_spawn"
    /\ nalloc < MaxStarts
    /\ nalloc' = nalloc + 1
    /\ LET i == nalloc + 1
           loc == [L EXCEPT ![w].new = i, ![w].probes = "started"]
       IN \E mode \in SpawnOutcomes :
            /\ S' = [S EXCEPT ![i] = IF mode = "ok" THEN Spawned(now)
                                     ELSE SpawnFailed(now, mode)]
            /\ L' = loc
            /\ pc' = [pc EXCEPT ![w] = IF mode = "ok" THEN "st_ins"
                                       ELSE "st_fail"]
    /\ UNCHANGED <<sessions, lock, now>>

\* lines 372-403: the probe thread and the keyframe thread are started, a
\* fresh session id, StreamSession(...), sess.start(); sess.kill() when
\* start() raised
StartSpawn(w) ==
    /\ pc[w] = "st_spawn"
    /\ nalloc < MaxStarts
    /\ nalloc' = nalloc + 1
    /\ LET i == nalloc + 1
           loc == [L EXCEPT ![w].new = i, ![w].probes = "started"]
       IN \E mode \in SpawnOutcomes :
            /\ S' = [S EXCEPT ![i] = IF mode = "ok" THEN Spawned(now)
                                     ELSE SpawnFailed(now, mode)]
            /\ IF mode = "ok"
               THEN /\ L' = loc
                    /\ pc' = [pc EXCEPT ![w] = "st_ins"]
               ELSE CallKill(w, i, "st_fail", loc)
    /\ UNCHANGED <<sessions, lock, now>>

\* lines 404-407: join the probe threads, answer 500
StartFail(w) ==
    /\ pc[w] = "st_fail"
    /\ L' = [L EXCEPT ![w].status = 500, ![w].probes = "joined"]
    /\ pc' = [pc EXCEPT ![w] = "done"]
    /\ UNCHANGED <<sessions, S, nalloc, lock, now>>

\* StartIns registering the new session under the id of the one it replaced
StartInsReuseId(w) ==
    /\ pc[w] = "st_ins"
    /\ lock \subseteq {w}
    /\ LET i == IF L[w].replaced # 0 THEN L[w].replaced ELSE L[w].new
       IN /\ sessions' = sessions \cup {i}
          /\ S' = [S EXCEPT ![i].reg = TRUE]
    /\ L' = [L EXCEPT ![w].status = 200, ![w].probes = "joined"]
    /\ pc' = [pc EXCEPT ![w] = "done"]
    /\ lock' = {}
    /\ UNCHANGED <<nalloc, now>>

\* lines 410-429: under the lock, sessions[session_id] = sess; after it the
\* threads are joined and 200 is answered
StartIns(w) ==
    /\ pc[w] = "st_ins"
    /\ lock \subseteq {w}
    /\ sessions' = sessions \cup {L[w].new}
    /\ S' = [S EXCEPT ![L[w].new].reg = TRUE]
    /\ L' = [L EXCEPT ![w].status = 200, ![w].probes = "joined"]
    /\ pc' = [pc EXCEPT ![w] = "done"]
    /\ lock' = {}
    /\ UNCHANGED <<nalloc, now>>

\* the response is sent; the worker takes the next request
Return(w) ==
    /\ pc[w] = "done"
    /\ pc' = [pc EXCEPT ![w] = "idle"]
    /\ L' = [L EXCEPT ![w] = NoLocals]
    /\ UNCHANGED <<sessions, S, nalloc, lock, now>>

Start(w) ==
    \/ StartReq(w)
    \/ StartPop(w)
    \/ StartCap(w)
    \/ StartSpawn(w)
    \/ StartFail(w)
    \/ StartIns(w)

\* ------------------------------------------------------------- stop handler
\* DELETE /<session_id>
StopReq(w) ==
    /\ pc[w] = "idle"
    /\ \E sid \in 1..nalloc :
         L' = [L EXCEPT ![w] = [NoLocals EXCEPT !.op = "stop", !.sid = sid]]
    /\ pc' = [pc EXCEPT ![w] = "sp_pop"]
    /\ UNCHANGED <<sessions, S, nalloc, lock, now>>

\* StopPop reading the session with sessions.get: it is killed but stays
\* registered
StopPopGet(w) ==
    /\ pc[w] = "sp_pop"
    /\ lock \subseteq {w}
    /\ LET sid == L[w].sid
           found == sid \in sessions
       IN /\ sessions' = sessions
          /\ S' = IF found THEN [S EXCEPT ![sid].pops = @ + 1] ELSE S
          /\ IF found
             THEN CallKill(w, sid, "sp_ok", [L EXCEPT ![w].replaced = sid])
             ELSE /\ L' = [L EXCEPT ![w].status = 404]
                  /\ pc' = [pc EXCEPT ![w] = "done"]
    /\ lock' = {}
    /\ UNCHANGED <<nalloc, now>>

\* StopPop answering 200 whether or not there was a session to pop
StopPopLenient(w) ==
    /\ pc[w] = "sp_pop"
    /\ lock \subseteq {w}
    /\ LET sid == L[w].sid
           found == sid \in sessions
       IN /\ sessions' = sessions \ {sid}
          /\ S' = IF found THEN [S EXCEPT ![sid].pops = @ + 1] ELSE S
          /\ IF found
             THEN CallKill(w, sid, "sp_ok", [L EXCEPT ![w].replaced = sid])
             ELSE /\ L' = [L EXCEPT ![w].status = 200]
                  /\ pc' = [pc EXCEPT ![w] = "done"]
    /\ lock' = {}
    /\ UNCHANGED <<nalloc, now>>

\* StopPop with sess.kill() inside the "with sessions_lock:" block
StopPopHolding(w) ==
    /\ pc[w] = "sp_pop"
    /\ lock \subseteq {w}
    /\ LET sid == L[w].sid
           found == sid \in sessions
       IN /\ sessions' = sessions \ {sid}
          /\ S' = IF found THEN [S EXCEPT ![sid].pops = @ + 1] ELSE S
          /\ lock' = IF found THEN {w} ELSE {}
          /\ IF found
             THEN CallKill(w, sid, "sp_ok", [L EXCEPT ![w].replaced = sid])
             ELSE /\ L' = [L EXCEPT ![w].status = 404]
                  /\ pc' = [pc EXCEPT ![w] = "done"]
    /\ UNCHANGED <<nalloc, now>>

\* lines 504-508: under the lock, sess = sessions.pop(session_id, None);
\* 404 without a session, sess.kill() otherwise
StopPop(w) ==
    /\ pc[w] = "sp_pop"
    /\ lock \subseteq {w}
    /\ LET sid == L[w].sid
           found == sid \in sessions
       IN /\ sessions' = sessions \ {sid}
          /\ S' = IF found THEN [S EXCEPT ![sid].pops = @ + 1] ELSE S
          /\ IF found
             THEN CallKill(w, sid, "sp_ok", [L EXCEPT ![w].replaced = sid])
             ELSE /\ L' = [L EXCEPT ![w].status = 404]
                  /\ pc' = [pc EXCEPT ![w] = "done"]
    /\ lock' = {}
    /\ UNCHANGED <<nalloc, now>>

\* line 509
StopOk(w) ==
    /\ pc[w] = "sp_ok"
    /\ L' = [L EXCEPT ![w].status = 200]
    /\ pc' = [pc EXCEPT ![w] = "done"]
    /\ UNCHANGED <<sessions, S, nalloc, lock, now>>

Stop(w) ==
    \/ StopReq(w)
    \/ StopPop(w)
    \/ StopOk(w)

\* --------------------------------------------------------- playlist handler
\* lines 435-438: under the lock, sess = sessions.get(session_id); 404
\* without a session
PlaylistReq(w) ==
    /\ pc[w] = "idle"
    /\ lock \subseteq {w}
    /\ \E sid \in 1..nalloc :
         /\ L' = [L EXCEPT ![w] = [NoLocals EXCEPT !.op = "playlist",
                                      !.sid = sid,
                                      !.status = IF sid \in sessions
                                                 THEN 0 ELSE 404]]
         /\ pc' = [pc EXCEPT ![w] = IF sid \in sessions
                                    THEN "pl_touch" ELSE "done"]
    /\ lock' = {}
    /\ UNCHANGED <<sessions, S, nalloc, now>>

\* PlaylistTouch without the touch
PlaylistNoTouch(w) ==
    /\ pc[w] = "pl_touch"
    /\ pc' = [pc EXCEPT ![w] = "pl_failed"]
    /\ UNCHANGED <<sessions, S, nalloc, lock, L, now>>

\* line 439: sess.touch()
PlaylistTouch(w) ==
    /\ pc[w] = "pl_touch"
    /\ S' = [S EXCEPT ![L[w].sid].last = now]
    /\ pc' = [pc EXCEPT ![w] = "pl_failed"]
    /\ UNCHANGED <<sessions, nalloc, lock, L, now>>

\* lines 444-445: 500 when sess.ffmpeg_failed()
PlaylistFailed(w) ==
    /\ pc[w] = "pl_failed"
    /\ IF ffmpeg_failed(S[L[w].sid])
       THEN /\ L' = [L EXCEPT ![w].status = 500, ![w].body = "error"]
            /\ pc' = [pc EXCEPT ![w] = "done"]
       ELSE /\ L' = L
            /\ pc' = [pc EXCEPT ![w] = "pl_read"]
    /\ UNCHANGED <<sessions, S, nalloc, lock, now>>

\* PlaylistRead without the stub: a manifest that cannot be read or holds no
\* segment entry makes an error body
PlaylistReadNoStub(w) ==
    /\ pc[w] = "pl_read"
    /\ L' = [L EXCEPT ![w].body = IF has_segments(S[L[w].sid])
                                  THEN "real" ELSE "error"]
    /\ pc' = [pc EXCEPT ![w] = "pl_send"]
    /\ UNCHANGED <<sessions, S, nalloc, lock, now>>

\* lines 448-450, 453-454: the manifest file is read; with "#EXTINF:" in it
\* the content read is the body, without, or on OSError, the body is the
\* stub (header lines only)
PlaylistRead(w) ==
    /\ pc[w] = "pl_read"
    /\ L' = [L EXCEPT ![w].body = IF has_segments(S[L[w].sid])
                                  THEN "real" ELSE "stub"]
    /\ pc' = [pc EXCEPT ![w] = "pl_send"]
    /\ UNCHANGED <<sessions, S, nalloc, lock, now>>

\* lines 451-452, 456-464: the body is answered with status 200
PlaylistSend(w) ==
    /\ pc[w] = "pl_send"
    /\ L' = [L EXCEPT ![w].status = 200]
    /\ pc' = [pc EXCEPT ![w] = "done"]
    /\ UNCHANGED <<sessions, S, nalloc, lock, now>>

Playlist(w) ==
    \/ PlaylistReq(w)
    \/ PlaylistTouch(w)
    \/ PlaylistFailed(w)
    \/ PlaylistRead(w)
    \/ PlaylistSend(w)

\* ---------------------------------------------------------- segment handler
\* the transcoder appends a chunk to the segment file the client asks for
SegWrite(i) ==
    /\ S[i].proc = "run"
    /\ S[i].dir
    /\ S[i].segsize < SegChunks
    /\ S' = [S EXCEPT ![i].segsize = @ + 1]
    /\ UNCHANGED <<sessions, nalloc, lock, pc, L, now>>

\* a transcoder that never finishes the segment file: it appears, then
\* grows between any two reads of its size. The handler only compares a
\* read with the one before, so one step of growth after a read stands for
\* any amount of it
SegGrow(i) ==
    /\ S[i].proc = "run"
    /\ S[i].dir
    /\ S[i].segsize < GrowMax
    /\ \/ S[i].segsize = 0
       \/ \E w \in Workers : /\ pc[w] \in {"sg_stable", "sg_send"}
                             /\ L[w].sid = i
                             /\ L[w].prev_size = S[i].segsize
    /\ S' = [S EXCEPT ![i].segsize = @ + 1]
    /\ UNCHANGED <<sessions, nalloc, lock, pc, L, now>>

\* lines 469-472: under the lock, sess = sessions.get(session_id); 404
\* without a session
SegReq(w) ==
    /\ pc[w] = "idle"
    /\ lock \subseteq {w}
    /\ \E sid \in 1..nalloc :
         /\ L' = [L EXCEPT ![w] = [NoLocals EXCEPT !.op = "segment",
                                      !.sid = sid,
                                      !.status = IF sid \in sessions
                                                 THEN 0 ELSE 404]]
         /\ pc' = [pc EXCEPT ![w] = IF sid \in sessions
                                    THEN "sg_touch" ELSE "done"]
    /\ lock' = {}
    /\ UNCHANGED <<sessions, S, nalloc, now>>

\* line 473: sess.touch()
SegTouch(w) ==
    /\ pc[w] = "sg_touch"
    /\ S' = [S EXCEPT ![L[w].sid].last = now]
    /\ pc' = [pc EXCEPT ![w] = "sg_wait"]
    /\ UNCHANGED <<sessions, nalloc, lock, L, now>>

\* SegWait without the ffmpeg_failed() test: the loop waits on
SegWaitNoFailTest(w) ==
    /\ pc[w] = "sg_wait"
    /\ LET s == S[L[w].sid] IN
       IF L[w].polls = SegPollMax
       THEN /\ L' = [L EXCEPT ![w].status = 504]
            /\ pc' = [pc EXCEPT ![w] = "done"]
       ELSE IF s.dir /\ s.segsize > 0
       THEN /\ L' = [L EXCEPT ![w].prev_size = -1, ![w].spolls = 0]
            /\ pc' = [pc EXCEPT ![w] = "sg_stable"]
       ELSE /\ L' = [L EXCEPT ![w].polls = @ + 1]
            /\ pc' = pc
    /\ UNCHANGED <<sessions, S, nalloc, lock, now>>

\* lines 478-485: one turn of the loop waiting for the file: out of the loop
\* when it exists with a size > 0, 500 when ffmpeg_failed(), sleep
\* otherwise; 504 when the 300 turns are used up
SegWait(w) ==
    /\ pc[w] = "sg_wait"
    /\ LET s == S[L[w].sid] IN
       IF L[w].polls = SegPollMax
       THEN /\ L' = [L EXCEPT ![w].status = 504]
            /\ pc' = [pc EXCEPT ![w] = "done"]
       ELSE IF s.dir /\ s.segsize > 0
       THEN /\ L' = [L EXCEPT ![w].prev_size = -1, ![w].spolls = 0]
            /\ pc' = [pc EXCEPT ![w] = "sg_stable"]
       ELSE IF ffmpeg_failed(s)
       THEN /\ L' = [L EXCEPT ![w].status = 500]
            /\ pc' = [pc EXCEPT ![w] = "done"]
       ELSE /\ L' = [L EXCEPT ![w].polls = @ + 1]
            /\ pc' = pc
    /\ UNCHANGED <<sessions, S, nalloc, lock, now>>

\* SegStable without the limit of 50 turns: the loop lasts as long as the
\* size changes
SegStableNoLimit(w) ==
    /\ pc[w] = "sg_stable"
    /\ LET s == S[L[w].sid] IN
       IF \/ ~s.dir \/ s.segsize = 0
          \/ s.segsize = L[w].prev_size
       THEN /\ L' = L
            /\ pc' = [pc EXCEPT ![w] = "sg_send"]
       ELSE /\ L' = [L EXCEPT ![w].prev_size = s.segsize,
                              ![w].spolls = @ + 1]
            /\ pc' = pc
    /\ UNCHANGED <<sessions, S, nalloc, lock, now>>

\* lines 488-497: one turn of the loop waiting for the size to settle: out
\* of the loop when getsize raises, when the size equals the one read a turn
\* before, or when the 50 turns are used up
SegStable(w) ==
    /\ pc[w] = "sg_stable"
    /\ LET s == S[L[w].sid] IN
       IF \/ L[w].spolls = StablePollMax
          \/ ~s.dir \/ s.segsize = 0
          \/ s.segsize = L[w].prev_size
       THEN /\ L' = L
            /\ pc' = [pc EXCEPT ![w] = "sg_send"]
       ELSE /\ L' = [L EXCEPT ![w].prev_size = s.segsize,
                              ![w].spolls = @ + 1]
            /\ pc' = pc
    /\ UNCHANGED <<sessions, S, nalloc, lock, now>>

\* line 499: send_file(seg_path): the file as it is now goes out with 200
\* (a file that is gone makes send_file raise: 500); partial records that
\* the transcoder had not finished writing it
SegSend(w) ==
    /\ pc[w] = "sg_send"
    /\ LET s == S[L[w].sid] IN
       L' = IF s.dir /\ s.segsize > 0
            THEN [L EXCEPT ![w].status = 200, ![w].sent = s.segsize,
                           ![w].partial = s.proc = "run"
                                          /\ s.segsize < SegChunks]
            ELSE [L EXCEPT ![w].status = 500]
    /\ pc' = [pc EXCEPT ![w] = "done"]
    /\ UNCHANGED <<sessions, S, nalloc, lock, now>>

Segment(w) ==
    \/ SegReq(w)
    \/ SegTouch(w)
    \/ SegWait(w)
    \/ SegStable(w)
    \/ SegSend(w)

\* ------------------------------------------------------ _find_keyframe_time
\* times are in tenths of a second
Max(a, b) == IF a >= b THEN a ELSE b

\* line 299: probe_start = max(0, target_time - 30)
probe_start(target_time) == Max(0, target_time - KfWindow)

\* the lines ffprobe can print for the interval probe_start%target_time+0.5:
\* an empty line, a line with a single field, a key packet whose pts_time is
\* not a number, and packets with a pts_time (the packet the demuxer seeks
\* back to may lie just before the interval) with or without the K flag
KfLines(target_time) ==
    { [parts |-> 0, num |-> FALSE, pts |-> 0, key |-> FALSE],
      [parts |-> 1, num |-> TRUE, pts |-> 0, key |-> FALSE],
      [parts |-> 2, num |-> FALSE, pts |-> 0, key |-> TRUE] }
    \cup { [parts |-> 2, num |-> TRUE, pts |-> x, key |-> k] :
             x \in (probe_start(target_time) - 1)
                     ..(target_time + KfReadAhead),
             k \in BOOLEAN }

\* lines 311-322: the loop over the lines of stdout
RECURSIVE KfBest(_, _, _)
KfBest(lines, target_time, best) ==
    IF lines = <<>> THEN best
    ELSE LET line == Head(lines)
             taken == /\ line.parts >= 2
                      /\ line.key
                      /\ line.num
                      /\ line.pts <= target_time + KfTolerance
         IN KfBest(Tail(lines), target_time,
                   IF taken THEN Max(best, line.pts) ELSE best)

\* lines 294-325; rc is "ok", "nonzero" (returncode != 0) or "raise"
\* (subprocess.run raised: timeout, no ffprobe)
find_keyframe_time(target_time, rc, out) ==
    IF target_time <= 0 THEN 0
    ELSE IF rc = "raise" THEN target_time
    ELSE IF rc = "nonzero" THEN target_time
    ELSE LET best == KfBest(out, target_time, 0)
         IN IF best > 0 THEN best ELSE target_time

\* line 392: keyframe_time[0] = _find_keyframe_time(filepath, start_time)
FindKeyframe(w) ==
    /\ pc[w] = "kf_call"
    /\ L' = [L EXCEPT ![w].result =
                 find_keyframe_time(L[w].args.t, L[w].args.rc, L[w].args.out)]
    /\ pc' = [pc EXCEPT ![w] = "done"]
    /\ UNCHANGED <<sessions, S, nalloc, lock, now>>

\* ------------------------------------------- StreamSession.start: the plan
\* line 22
SAFE_CODECS == {"h264"}

\* codec names ffprobe can report for the first video stream; "" stands for
\* a stream without codec_name (s.get("codec_name", ""))
Codecs == {"h264", "H264", "hevc", "HEVC", "vp9", ""}

\* str.lower() on the codec names
lower(c) ==
    CASE c = "H264" -> "h264"
      [] c = "HEVC" -> "hevc"
      [] OTHER -> c

\* the wider allow-list a faulty plan would use
needs_transcode_wide(codec_name) == lower(codec_name) \notin {"h264", "hevc"}

\* lines 63-65: codec_name = s.get("codec_name", "").lower();
\* if codec_name not in SAFE_CODECS: needs_transcode = True
needs_transcode(codec_name) == lower(codec_name) \notin SAFE_CODECS

\* a bit rate as ffmpeg takes it: a number and a unit suffix
Rate(n, unit) == [n |-> n, unit |-> unit]
NoRate == Rate(0, "")

\* the profile catalog: a width of 0 and a rate of NoRate stand for a key
\* the profile does not have
Profiles ==
    { [name |-> "original", width |-> 0, video_bitrate |-> NoRate,
       audio_bitrate |-> NoRate],
      [name |-> "720p", width |-> 1280, video_bitrate |-> Rate(3, "M"),
       audio_bitrate |-> Rate(128, "k")],
      [name |-> "bare", width |-> 0, video_bitrate |-> NoRate,
       audio_bitrate |-> NoRate] }

\* what ffprobe(filepath) gives: it raises (timeout), returns None
\* (returncode != 0), or returns the streams; width and the bit rates are 0
\* where the key is absent, bit rates are in bit/s
ProbeOutcomes ==
    { [kind |-> k, video |-> FALSE, codec |-> "", width |-> 0, sbr |-> 0,
       fbr |-> 0] : k \in {"raise", "none", "data"} }
    \cup { [kind |-> "data", video |-> TRUE, codec |-> c, width |-> wd,
            sbr |-> sb, fbr |-> fb] :
             c \in Codecs, wd \in {0, 3840}, sb \in {0, 8000999},
             fb \in {0, 9000000} }

\* lines 134-137: vbr = source_bitrate if source_bitrate else "20M"; a string
\* of digits becomes str(int(int(vbr) / 1000)) + "k"
source_vbr(source_bitrate) ==
    IF source_bitrate # 0 THEN Rate(source_bitrate \div 1000, "k")
    ELSE Rate(20, "M")

\* lines 139-157, 164-186: the encoder for the hardware setting
encoder(hw) ==
    CASE hw = "vaapi" -> "h264_vaapi"
      [] hw = "qsv" -> "h264_qsv"
      [] OTHER -> "libx264"

NoPlan ==
    [raised |-> TRUE, vcodec |-> "", scale_w |-> 0, vbr |-> NoRate,
     acodec |-> "", abr |-> NoRate, hwinit |-> "", burn |-> FALSE,
     seek |-> FALSE, subs |-> ""]

\* sub_filter without the test of start_time: never shifted
sub_filter_unshifted(sub, reencode, seek) ==
    IF sub /\ reencode THEN "subtitles" ELSE ""

\* lines 98-123: the subtitle filter: empty unless a track is asked for and
\* the video is encoded; with start_time > 0 between setpts=PTS+start/TB and
\* setpts=PTS-start/TB
sub_filter(sub, reencode, seek) ==
    IF sub /\ reencode
    THEN IF seek THEN "setpts+,subtitles,setpts-" ELSE "subtitles"
    ELSE ""

\* lines 40-189: the ffmpeg command start() builds from the profile, the
\* probe, the hardware setting, whether a subtitle track is to be burnt in
\* (sub_idx is not None; sprobe is the outcome of the second ffprobe call,
\* line 104) and whether start_time > 0
BuildPlan(profile, probe, hw, sub, sprobe, seek) ==
    LET original == profile.name = "original"
        probed == original /\ probe.kind = "data" /\ probe.video
        transcode == probed /\ needs_transcode(probe.codec)
        source_width == IF probed THEN probe.width ELSE 0
        stream_br == IF probed THEN probe.sbr ELSE 0
        source_bitrate == IF transcode /\ stream_br = 0
                          THEN probe.fbr ELSE stream_br
        reencode == ~original \/ transcode
        filter == sub_filter(sub, reencode, seek)
        burn == filter # ""
        hwinit == IF reencode /\ hw \in {"vaapi", "qsv"} THEN hw ELSE "none"
    IN IF original /\ probe.kind = "raise" THEN NoPlan
       ELSE IF burn /\ sprobe = "raise" THEN NoPlan
       ELSE IF original /\ ~transcode
       THEN [raised |-> FALSE, vcodec |-> "copy", scale_w |-> 0,
             vbr |-> NoRate, acodec |-> "copy", abr |-> NoRate,
             hwinit |-> hwinit, burn |-> FALSE, seek |-> seek, subs |-> ""]
       ELSE IF original
       THEN [raised |-> FALSE, vcodec |-> encoder(hw),
             scale_w |-> IF source_width # 0 THEN source_width ELSE 1920,
             vbr |-> source_vbr(source_bitrate),
             acodec |-> "aac", abr |-> Rate(192, "k"),
             hwinit |-> hwinit, burn |-> burn, seek |-> seek,
             subs |-> filter]
       ELSE [raised |-> FALSE, vcodec |-> encoder(hw),
             scale_w |-> IF profile.width # 0 THEN profile.width ELSE 1920,
             vbr |-> IF profile.video_bitrate # NoRate
                     THEN profile.video_bitrate ELSE Rate(6, "M"),
             acodec |-> "aac",
             abr |-> IF profile.audio_bitrate # NoRate
                     THEN profile.audio_bitrate ELSE Rate(192, "k"),
             hwinit |-> hwinit, burn |-> burn, seek |-> seek,
             subs |-> filter]

\* StreamSession.start() up to the command handed to Popen
StartPlan(w) ==
    /\ pc[w] = "pl_call"
    /\ L' = [L EXCEPT ![w].result =
                 BuildPlan(L[w].args.profile, L[w].args.probe, L[w].args.hw,
                           L[w].args.sub, L[w].args.sprobe, L[w].args.seek)]
    /\ pc' = [pc EXCEPT ![w] = "done"]
    /\ UNCHANGED <<sessions, S, nalloc, lock, now>>

\* ------------------------------------------------------------ _cleanup_loop
\* SweepScan taking every registered session as a victim
SweepScanAll ==
    /\ pc[Sweeper] = "sw_sleep"
    /\ lock \subseteq {Sweeper}
    /\ LET victims == sessions
       IN /\ sessions' = sessions \ victims
          /\ S' = [i \in Ids |-> IF i \in victims
                                 THEN [S[i] EXCEPT !.pops = @ + 1]
                                 ELSE S[i]]
          /\ L' = [L EXCEPT ![Sweeper].op = "sweep",
                            ![Sweeper].to_kill = victims]
    /\ pc' = [pc EXCEPT ![Sweeper] = "sw_kill"]
    /\ lock' = {}
    /\ UNCHANGED <<nalloc, now>>

\* SweepScan collecting its victims without popping them
SweepScanKeep ==
    /\ pc[Sweeper] = "sw_sleep"
    /\ lock \subseteq {Sweeper}
    /\ LET victims == { i \in sessions :
                          \/ now - S[i].last > IdleTTL
                          \/ ffmpeg_failed(S[i]) }
       IN /\ sessions' = sessions
          /\ S' = [i \in Ids |-> IF i \in victims
                                 THEN [S[i] EXCEPT !.pops = @ + 1]
                                 ELSE S[i]]
          /\ L' = [L EXCEPT ![Sweeper].op = "sweep",
                            ![Sweeper].to_kill = victims]
    /\ pc' = [pc EXCEPT ![Sweeper] = "sw_kill"]
    /\ lock' = {}
    /\ UNCHANGED <<nalloc, now>>

\* SweepScan taking only the idle sessions
SweepScanIdleOnly ==
    /\ pc[Sweeper] = "sw_sleep"
    /\ lock \subseteq {Sweeper}
    /\ LET victims == { i \in sessions : now - S[i].last > IdleTTL }
       IN /\ sessions' = sessions \ victims
          /\ S' = [i \in Ids |-> IF i \in victims
                                 THEN [S[i] EXCEPT !.pops = @ + 1]
                                 ELSE S[i]]
          /\ L' = [L EXCEPT ![Sweeper].op = "sweep",
                            ![Sweeper].to_kill = victims]
    /\ pc' = [pc EXCEPT ![Sweeper] = "sw_kill"]
    /\ lock' = {}
    /\ UNCHANGED <<nalloc, now>>

\* lines 276-286: after the sleep, now = time.time(); under the lock, the
\* sessions that are idle or dead are popped and collected in to_kill
SweepScan ==
    /\ pc[Sweeper] = "sw_sleep"
    /\ lock \subseteq {Sweeper}
    /\ LET victims == { i \in sessions :
                          \/ now - S[i].last > IdleTTL
                          \/ ffmpeg_failed(S[i]) }
       IN /\ sessions' = sessions \ victims
          /\ S' = [i \in Ids |-> IF i \in victims
                                 THEN [S[i] EXCEPT !.pops = @ + 1]
                                 ELSE S[i]]
          /\ L' = [L EXCEPT ![Sweeper].op = "sweep",
                            ![Sweeper].to_kill = victims]
    /\ pc' = [pc EXCEPT ![Sweeper] = "sw_kill"]
    /\ lock' = {}
    /\ UNCHANGED <<nalloc, now>>

\* lines 287-288: for sess in to_kill: sess.kill()
SweepKill ==
    /\ pc[Sweeper] = "sw_kill"
    /\ IF L[Sweeper].to_kill = {}
       THEN /\ pc' = [pc EXCEPT ![Sweeper] = "sw_sleep"]
            /\ L' = [L EXCEPT ![Sweeper] = NoLocals]
       ELSE \E i \in L[Sweeper].to_kill :
              CallKill(Sweeper, i, "sw_kill",
                       [L EXCEPT ![Sweeper].to_kill = @ \ {i}])
    /\ UNCHANGED <<sessions, S, nalloc, lock, now>>

Sweep ==
    \/ SweepScan
    \/ SweepKill

\* ------------------------------------------------------------------ system
\* one step of a request worker
WorkerStep(w) ==
    \/ Start(w)
    \/ Stop(w)
    \/ Return(w)
    \/ Kill(w)

\* one step of the cleanup thread
SweeperStep ==
    \/ Sweep
    \/ Kill(Sweeper)

Next ==
    \/ Env
    \/ \E w \in Workers : WorkerStep(w)
    \/ SweeperStep

Spec == Init /\ [][Next]_vars

\* The system with the threads seen inside their "with sessions_lock:"
\* blocks: a thread may hold the lock while the others run.
NextLock ==
    \/ Next
    \/ \E p \in Procs : Acquire(p)

SpecLock == Init /\ [][NextLock]_vars

\* The system left to the cleanup thread: the workers serve start requests
\* without a replace id and nothing is stopped, the cleanup loop keeps
\* running (the thread is always scheduled again) and time advances.
NextLive ==
    \/ Env
    \/ \E w \in Workers : Start(w) /\ L'[w].rep = 0
    \/ \E w \in Workers : Return(w)
    \/ \E w \in Workers : Kill(w)
    \/ SweeperStep

SpecLive ==
    /\ Init
    /\ [][NextLive]_vars
    /\ WF_vars(SweeperStep)
    /\ WF_vars(Tick)

\* the last value the clock takes
LastTime == (MaxTime \div TickStep) * TickStep

\* The same system with the requests and the cleanup passes served one at a
\* time: a thread takes a step only while every other thread is at rest
\* (the transcoders and the clock run on as before).
Quiet(p) ==
    \A q \in Procs \ {p} : pc[q] \in {"idle", "sw_sleep"}

NextSeq ==
    \/ Env
    \/ \E w \in Workers : Quiet(w) /\ WorkerStep(w)
    \/ Quiet(Sweeper) /\ SweeperStep

SpecSeq == Init /\ [][NextSeq]_vars

\* The system with a player polling the playlist: worker 1 serves the
\* playlist requests while the other workers serve start and stop, and the
\* cleanup thread runs.
NextPl ==
    \/ Env
    \/ \E w \in {1} : Playlist(w)
    \/ \E w \in {1} : Return(w)
    \/ \E w \in Workers \ {1} : WorkerStep(w)
    \/ SweeperStep

SpecPl == Init /\ [][NextPl]_vars

\* ------------------------------------------------ kill() called twice
\* the states a session is in when kill() is called on it: popped from the
\* registry with its process running or exited, with or without segments, or
\* never registered because start() raised
KillTargets ==
    { [Spawned(0) EXCEPT !.proc = pr, !.segs = sg, !.ever = sg,
                         !.reg = TRUE, !.pops = 1] :
        pr \in {"run", "ok", "err"}, sg \in BOOLEAN }
    \cup { SpawnFailed(0, mode) : mode \in SpawnOutcomes \ {"ok"} }

\* every worker is a caller about to run kill() on session 1
InitKill ==
    /\ sessions = {}
    /\ \E s \in KillTargets : S = [i \in Ids |-> IF i = 1 THEN s ELSE NoSession]
    /\ nalloc = 1
    /\ lock = {}
    /\ pc = [p \in Procs |-> IF p = Sweeper THEN "sw_sleep" ELSE "k_close"]
    /\ L = [p \in Procs |->
              IF p = Sweeper THEN NoLocals
              ELSE [NoLocals EXCEPT !.op = "kill", !.kt = 1, !.ret = "done"]]
    /\ now = 0

NextKill ==
    \/ Env
    \/ \E w \in Workers : KillStmt(w)

SpecKill == InitKill /\ [][NextKill]_vars

\* ------------------------------------------- a segment being delivered
\* one registered session with its transcoder running (the state after a
\* start answered 200); a worker serves segment requests while the
\* transcoder writes the segment file and the cleanup thread runs
InitSeg ==
    /\ sessions = {1}
    /\ S = [i \in Ids |-> IF i = 1 THEN [Spawned(0) EXCEPT !.reg = TRUE]
                          ELSE NoSession]
    /\ nalloc = 1
    /\ lock = {}
    /\ pc = [p \in Procs |-> IF p = Sweeper THEN "sw_sleep" ELSE "idle"]
    /\ L = [p \in Procs |-> NoLocals]
    /\ now = 0

NextSeg ==
    \/ Env
    \/ \E i \in Ids : SegWrite(i)
    \/ \E w \in {1} : Segment(w)
    \/ \E w \in {1} : Return(w)
    \/ SweeperStep

SpecSeg == InitSeg /\ [][NextSeg]_vars

\* ------------------------------------------- requests that must end
\* one registered session whose transcoder may never write the segment, may
\* grow it without end, or may exit; a worker that keeps running serves
\* playlist and segment requests
PollStep ==
    \E w \in {1} : Segment(w) \/ Playlist(w)

NextPoll ==
    \/ \E i \in Ids : SegmentProduced(i) \/ ExitClean(i) \/ ExitError(i)
    \/ \E i \in Ids : SegGrow(i)
    \/ PollStep
    \/ \E w \in {1} : Return(w)

SpecPoll == InitSeg /\ [][NextPoll]_vars /\ WF_vars(PollStep)

\* ------------------------------------------ requests and the sweeper
\* one registered session read by playlist and segment requests while its
\* transcoder writes or exits, time passes and the cleanup thread runs
NextTouch ==
    \/ Env
    \/ \E i \in Ids : SegWrite(i)
    \/ \E w \in {1} : Segment(w) \/ Playlist(w)
    \/ \E w \in {1} : Return(w)
    \/ SweeperStep

SpecTouch == InitSeg /\ [][NextTouch]_vars

\* ------------------------------------------------- the keyframe resolver
SeqsUpTo(X, n) == UNION { [1..k -> X] : k \in 0..n }

\* the resolver's arguments and what ffprobe did: a call with target 0 (the
\* function's own first test), and every target up to KfMaxTarget with each
\* exit and each listing of up to KfMaxLines lines
KfInputs(t) ==
    IF t = 0 THEN { [t |-> t, rc |-> "ok", out |-> <<>>] }
    ELSE { [t |-> t, rc |-> rc, out |-> out] :
             rc \in {"ok", "nonzero", "raise"},
             out \in SeqsUpTo(KfLines(t), KfMaxLines) }

InitKf ==
    /\ sessions = {}
    /\ S = [i \in Ids |-> NoSession]
    /\ nalloc = 0
    /\ lock = {}
    /\ pc = [p \in Procs |-> IF p = Sweeper THEN "sw_sleep"
                             ELSE IF p = 1 THEN "kf_call" ELSE "idle"]
    /\ \E t \in 0..KfMaxTarget :
         \E a \in KfInputs(t) :
           L = [p \in Procs |-> IF p = 1
                                THEN [NoLocals EXCEPT !.op = "keyframe",
                                                      !.args = a]
                                ELSE NoLocals]
    /\ now = 0

NextKf ==
    \/ \E w \in Workers : FindKeyframe(w)
    \/ \E w \in Workers : Return(w)

SpecKf == InitKf /\ [][NextKf]_vars

\* ------------------------------------------------- the path validation
\* what os.path.realpath returns: an absolute path without "//" and without
\* a trailing "/"
RealPaths ==
    { <<"/">> \o s : s \in { q \in SeqsUpTo({"/", "m", "e", "2"}, PathMaxLen) :
                              /\ q # <<>> => (q[1] # "/" /\ q[Len(q)] # "/")
                              /\ \A k \in 1..(Len(q) - 1) :
                                    ~(q[k] = "/" /\ q[k + 1] = "/") } }

InitPath ==
    /\ sessions = {}
    /\ S = [i \in Ids |-> NoSession]
    /\ nalloc = 0
    /\ lock = {}
    /\ pc = [p \in Procs |-> IF p = Sweeper THEN "sw_sleep"
                             ELSE IF p = 1 THEN "pv_call" ELSE "idle"]
    /\ \E q \in [audio : {"absent", "int", "bad"},
                 start : {"absent", "float", "bad"},
                 sub : {"absent", "int", "bad"},
                 path : {"absent", "given"},
                 real : RealPaths, isfile : BOOLEAN] :
         /\ q.path = "absent" => (q.real = RootReal /\ ~q.isfile)
         /\ L = [p \in Procs |->
                IF p = 1
                THEN [NoLocals EXCEPT !.op = "path", !.args = q]
                ELSE NoLocals]
    /\ now = 0

NextPath ==
    \/ \E w \in Workers : StartPath(w)
    \/ \E w \in Workers : Return(w)

SpecPath == InitPath /\ [][NextPath]_vars

\* --------------------------------------------------------- the encode plan
PlanInputs ==
    { [profile |-> p, probe |-> pr, hw |-> hw, sub |-> sb, sprobe |-> sp,
       seek |-> sk] :
        p \in Profiles, pr \in ProbeOutcomes,
        hw \in {"software", "vaapi", "qsv"}, sb \in BOOLEAN,
        sp \in {"ok", "raise"}, sk \in BOOLEAN }

InitPlan ==
    /\ sessions = {}
    /\ S = [i \in Ids |-> NoSession]
    /\ nalloc = 0
    /\ lock = {}
    /\ pc = [p \in Procs |-> IF p = Sweeper THEN "sw_sleep"
                             ELSE IF p = 1 THEN "pl_call" ELSE "idle"]
    /\ \E a \in PlanInputs :
         L = [p \in Procs |-> IF p = 1
                              THEN [NoLocals EXCEPT !.op = "plan", !.args = a]
                              ELSE NoLocals]
    /\ now = 0

NextPlan ==
    \/ \E w \in Workers : StartPlan(w)
    \/ \E w \in Workers : Return(w)

SpecPlan == InitPlan /\ [][NextPlan]_vars

\* ================================================================== claims

\* C1: under every interleaving of concurrent start requests the registry
\* never holds more than maxSessions sessions.
C1_CapacityNeverExceeded ==
    Cardinality(sessions) <= MaxSessions

\* C2: with maxSessions = 1 and an empty registry, of two concurrent start
\* requests without a replace id whose transcoders spawn, exactly one is
\* answered 200 and the other 429.  The two requests are the only ones that
\* ever created a session, and nothing was popped in between.
C2_ExactlyOneAdmitted ==
    \A w1, w2 \in Workers :
        ( /\ w1 # w2
          /\ MaxSessions = 1
          /\ pc[w1] = "done" /\ pc[w2] = "done"
          /\ L[w1].op = "start" /\ L[w2].op = "start"
          /\ L[w1].rep = 0 /\ L[w2].rep = 0
          /\ L[w1].status \in {200, 429} /\ L[w2].status \in {200, 429}
          /\ 1..nalloc \subseteq {L[w1].new, L[w2].new}
          /\ \A i \in Ids : S[i].pops = 0 )
        => ( /\ {L[w1].status, L[w2].status} = {200, 429} )

\* C3: a start with replace=X, X registered and the registry holding exactly
\* maxSessions sessions, is not answered 429: X is out of the registry and
\* its kill() is complete before the capacity check, and with the transcoder
\* spawned the new session is registered and the registry holds maxSessions
\* sessions again (requests served one at a time).
C3_ReplaceAtCapacity ==
    \A w \in Workers :
        (L[w].op = "start" /\ L[w].atcap) =>
            LET x == L[w].replaced
                n == L[w].new
            IN /\ x = L[w].rep
               /\ x \notin sessions
               /\ pc[w] \notin KillPcs =>
                    /\ S[x].kills = 1
                    /\ S[x].proc # "run"
                    /\ ~S[x].dir
               /\ L[w].status # 429
               /\ pc[w] = "done" =>
                    /\ n # 0
                    /\ IF S[n].proc # "none"
                       THEN /\ L[w].status = 200
                            /\ n \in sessions
                            /\ Cardinality(sessions) = MaxSessions
                       ELSE L[w].status = 500

\* C3 witness: a replace at capacity answered 200
C3_Witness ==
    \E w \in Workers :
        /\ pc[w] = "done"
        /\ L[w].atcap
        /\ L[w].status = 200
        /\ L[w].new \in sessions

\* C4: in every interleaving, a start with replace=X that popped X from a
\* registry at capacity is never answered 429.
C4_ReplaceNeverRejected ==
    \A w \in Workers :
        (L[w].op = "start" /\ L[w].atcap) => L[w].status # 429

\* the threads that hold session i as the one they popped
Holders(i) ==
    { p \in Procs : L[p].replaced = i \/ i \in L[p].to_kill \/ L[p].kt = i }

\* C6: a registered session is popped from the registry at most once, by
\* stop, a replace or the sweeper; kill() runs on it at most once, in the
\* thread that popped it; a stop that did not get the session answers 404.
C6_PoppedOnce ==
    /\ \A i \in Ids : S[i].reg =>
          /\ S[i].pops <= 1
          /\ S[i].kills <= S[i].pops
          /\ Cardinality(Holders(i)) <= 1
          /\ i \in sessions => (S[i].pops = 0 /\ Holders(i) = {})
    /\ \A p \in Procs :
          (pc[p] \in KillPcs /\ S[L[p].kt].reg) =>
              /\ S[L[p].kt].pops = 1
              /\ p \in Workers => L[p].replaced = L[p].kt
    /\ \A w \in Workers :
          (pc[w] = "done" /\ L[w].op = "stop") =>
              L[w].status = IF L[w].replaced = L[w].sid THEN 200 ELSE 404

\* C6 witness: one stop got the session and killed it, a second stop of the
\* same id is answered 404
C6_Witness ==
    \E i \in Ids, w1, w2 \in Workers :
        /\ w1 # w2
        /\ S[i].pops = 1 /\ S[i].kills = 1
        /\ L[w1].replaced = i
        /\ pc[w2] = "done" /\ L[w2].op = "stop" /\ L[w2].sid = i
        /\ L[w2].status = 404

C5_KillOnce ==
    \A i \in Ids : S[i].terms <= 1 /\ S[i].rms <= 1

\* C8: the segment handler never delivers a segment file the transcoder is
\* still writing: whenever it answers 200, what it sent is the file after
\* its last write.
C8_DeliveredComplete ==
    \A w \in Workers :
        (pc[w] = "done" /\ L[w].op = "segment" /\ L[w].status = 200) =>
            ~L[w].partial

\* C9: for every requested time t and every probe outcome the keyframe
\* resolver returns r <= t, and exactly t when the probe fails or reports no
\* keyframe packet.
C9_AtOrBeforeTarget ==
    \A w \in Workers :
        (pc[w] = "done" /\ L[w].op = "keyframe") =>
            LET a == L[w].args
                nokey == \A k \in 1..Len(a.out) :
                             ~(a.out[k].parts >= 2 /\ a.out[k].key)
            IN /\ L[w].result <= a.t
               /\ (a.rc # "ok" \/ nokey) => L[w].result = a.t

\* C10: with the profile named "original" and a probed first video stream
\* whose codec is not in the allow-list, the plan start() builds re-encodes
\* (never -c:v copy) at the source width (1920 when the probe has none) with
\* the source bit rate in kbit/s, the stream's before the container's
\* (20M when the probe has neither).
C10_UpgradedToTranscode ==
    \A w \in Workers :
        (/\ pc[w] = "done"
         /\ L[w].op = "plan"
         /\ ~L[w].result.raised
         /\ L[w].args.profile.name = "original"
         /\ L[w].args.probe.kind = "data"
         /\ L[w].args.probe.video
         /\ L[w].args.probe.codec \notin {"h264", "H264"}) =>
            LET pr == L[w].args.probe
                r == L[w].result
            IN /\ r.vcodec \in {"libx264", "h264_vaapi", "h264_qsv"}
               /\ r.scale_w = (IF pr.width > 0 THEN pr.width ELSE 1920)
               /\ r.vbr = (IF pr.sbr > 0 THEN Rate(pr.sbr \div 1000, "k")
                           ELSE IF pr.fbr > 0
                           THEN Rate(pr.fbr \div 1000, "k")
                           ELSE Rate(20, "M"))

C10_Witness ==
    \E w \in Workers :
        /\ pc[w] = "done"
        /\ L[w].op = "plan"
        /\ L[w].args.profile.name = "original"
        /\ L[w].args.probe.kind = "data"
        /\ L[w].args.probe.video
        /\ L[w].args.probe.codec = "hevc"
        /\ L[w].args.probe.width = 3840
        /\ L[w].args.probe.sbr = 0
        /\ L[w].args.probe.fbr = 9000000
        /\ L[w].result.vcodec = "libx264"
        /\ L[w].result.scale_w = 3840
        /\ L[w].result.vbr = Rate(9000, "k")

\* C11: the playlist handler answers by the session state it reads: 500
\* when ffmpeg_failed() is true (no process, or a non-zero exit with no
\* segment entry in the manifest), otherwise 200 with the real manifest when
\* it holds a segment entry and 200 with the stub when it does not; while
\* the transcoder is running it never answers an error.
C11_PlaylistByState ==
    [][\A w \in Workers :
         (L[w].op = "playlist" /\ pc'[w] # pc[w]) =>
            LET s == S[L[w].sid]
                entry == s.dir /\ s.segs
                failed == s.proc = "none" \/ (s.proc = "err" /\ ~entry)
            IN /\ pc[w] = "pl_failed" =>
                    IF failed
                    THEN /\ pc'[w] = "done"
                         /\ L'[w].status = 500
                         /\ s.proc # "run"
                    ELSE pc'[w] = "pl_read"
               /\ pc[w] = "pl_read" =>
                    /\ pc'[w] = "pl_send"
                    /\ L'[w].body = IF entry THEN "real" ELSE "stub"
               /\ pc[w] = "pl_send" =>
                    /\ pc'[w] = "done"
                    /\ L'[w].status = 200
                    /\ L'[w].body = L[w].body]_vars

\* C11 witness: a poll of a registered session whose transcoder is running
\* and has produced no segment is answered 200 with the stub
C11_Witness ==
    \E w \in Workers :
        /\ pc[w] = "done"
        /\ L[w].op = "playlist"
        /\ L[w].status = 200
        /\ L[w].body = "stub"
        /\ L[w].sid \in sessions
        /\ S[L[w].sid].proc = "run"
        /\ ~S[L[w].sid].ever

\* C12: a stop that finds its session pops it, runs kill() on it and answers
\* 200; a stop that does not (stopped before, removed by the sweeper or a
\* replace, never registered) answers 404 and leaves the registry and every
\* session as they were.
C12_StopOnceThenNotFound ==
    /\ [](\A w \in Workers :
            (pc[w] = "done" /\ L[w].op = "stop") =>
                IF L[w].status = 200
                THEN /\ L[w].replaced = L[w].sid
                     /\ L[w].sid \notin sessions
                     /\ S[L[w].sid].kills >= 1
                     /\ S[L[w].sid].proc # "run"
                     /\ ~S[L[w].sid].dir
                ELSE L[w].status = 404 /\ L[w].replaced = 0)
    /\ [][\A w \in Workers :
            (pc[w] = "sp_pop" /\ pc'[w] # pc[w]) =>
                LET sid == L[w].sid IN
                IF sid \in sessions
                THEN /\ sessions' = sessions \ {sid}
                     /\ pc'[w] \in KillPcs
                     /\ L'[w].kt = sid
                     /\ \A j \in Ids \ {sid} : S'[j] = S[j]
                ELSE /\ sessions' = sessions
                     /\ S' = S
                     /\ pc'[w] = "done"
                     /\ L'[w].status = 404]_vars

\* C12 witness: a stop for a session that was registered and is already
\* popped is answered 404
C12_Witness ==
    \E w \in Workers :
        /\ pc[w] = "done"
        /\ L[w].op = "stop"
        /\ L[w].status = 404
        /\ S[L[w].sid].reg
        /\ S[L[w].sid].pops = 1

\* C13: a sweeper pass pops, in one step under the lock, exactly the
\* registered sessions that are idle for more than 300 or failed; every
\* other session stays registered and the pass changes nothing of it: the
\* kill() calls of the pass act on the popped sessions only.
C13_SweepExactlyIdleOrFailed ==
    [][/\ (pc[Sweeper] = "sw_sleep" /\ pc'[Sweeper] # pc[Sweeper]) =>
            LET due == { i \in sessions :
                           \/ now - S[i].last > 300
                           \/ S[i].proc = "none"
                           \/ S[i].proc = "err" /\ ~(S[i].dir /\ S[i].segs) }
            IN /\ sessions' = sessions \ due
               /\ L'[Sweeper].to_kill = due
               /\ \A i \in Ids \ due : S'[i] = S[i]
               /\ \A i \in due : S'[i].proc = S[i].proc /\ S'[i].dir = S[i].dir
       /\ (pc[Sweeper] \in KillPcs \cup {"sw_kill"}
           /\ pc'[Sweeper] # pc[Sweeper]) =>
            /\ sessions' = sessions
            /\ L[Sweeper].kt \notin sessions
            /\ \A i \in Ids \ {L[Sweeper].kt} : S'[i] = S[i]]_vars

\* C13 witness: a pass has popped an idle session whose transcoder is still
\* running and left a session that is neither idle nor failed registered
C13_Witness ==
    \E i, j \in Ids :
        /\ pc[Sweeper] = "sw_kill"
        /\ i \in L[Sweeper].to_kill
        /\ S[i].proc = "run"
        /\ j \in sessions
        /\ S[j].proc = "run"
        /\ S[j].dir
        /\ now - S[j].last <= 300

\* a real path is the media root or lies below it
UnderRoot(real) ==
    \/ real = RootReal
    \/ startswith(real, RootReal \o <<"/">>)

\* C14: a start for a path whose real path is not under the media root
\* (a sibling directory whose name begins with the root's name included) is
\* answered 403 by the path validation, so that no session is created for
\* it.
C14_OnlyUnderRoot ==
    \A w \in Workers :
        (pc[w] = "done" /\ L[w].op = "path"
         /\ ~parse_raises(L[w].args)
         /\ ~UnderRoot(L[w].args.real)) => L[w].status = 403

\* C15: the validation of a start request answers 400 when a parameter is
\* missing or invalid (no path; audio, start or sub not a number); it answers 404 only for a valid
\* request whose file is missing, and never 500.
C15_BadRequest ==
    \A w \in Workers :
        (pc[w] = "done" /\ L[w].op = "path") =>
            LET q == L[w].args
                invalid == \/ q.path = "absent"
                           \/ q.audio = "bad"
                           \/ q.start = "bad"
                           \/ q.sub = "bad"
            IN /\ invalid => L[w].status = 400
               /\ L[w].status = 404 => (~invalid /\ ~q.isfile)
               /\ L[w].status # 500

\* C16: the segment handler answers 404 at once for an id that is not
\* registered; while it waits for the file it answers 500 in the turn in
\* which the file is still absent or empty and ffmpeg_failed() is true, 504
\* after 300 turns without either, and goes on towards 200 only with the
\* file present and not empty; what it sends with 200 is not empty.
C16_SegmentStatus ==
    [][\A w \in Workers :
         /\ (pc[w] = "idle" /\ L'[w].op = "segment") =>
               (L'[w].sid \notin sessions =>
                   (pc'[w] = "done" /\ L'[w].status = 404))
         /\ (pc[w] = "sg_wait" /\ (L'[w] # L[w] \/ pc'[w] # pc[w])) =>
               LET s == S[L[w].sid]
                   present == s.dir /\ s.segsize > 0
                   failed == \/ s.proc = "none"
                             \/ s.proc = "err" /\ ~(s.dir /\ s.segs)
               IN IF L[w].polls = 300
                  THEN pc'[w] = "done" /\ L'[w].status = 504
                  ELSE IF present THEN pc'[w] = "sg_stable"
                  ELSE IF failed
                  THEN pc'[w] = "done" /\ L'[w].status = 500
                  ELSE pc'[w] = "sg_wait" /\ L'[w].polls = L[w].polls + 1
         /\ (L[w].op = "segment" /\ L'[w].status = 200
             /\ L[w].status # 200) =>
               /\ pc[w] = "sg_send"
               /\ S[L[w].sid].segsize > 0
               /\ L'[w].sent > 0]_vars

\* C16 witness: the transcoder failed while the handler was waiting for the
\* segment, which is answered 500
C16_Witness ==
    \E w \in Workers :
        /\ pc[w] = "done"
        /\ L[w].op = "segment"
        /\ L[w].status = 500
        /\ L[w].polls > 0
        /\ S[L[w].sid].proc = "err"
        /\ ~S[L[w].sid].ever

\* kill() has been run on session i and has returned
KillCompleted(i) ==
    /\ S[i].kills > 0
    /\ \A p \in Procs : ~(pc[p] \in KillPcs /\ L[p].kt = i)

\* C17: in every interleaving with stop, replace and the sweeper, the
\* playlist handler does not answer 200 with a real manifest once kill() on
\* its session has completed, and a playlist request that begins with the
\* session popped answers 404.
C17_NoManifestAfterKill ==
    [][\A w \in Workers :
         /\ (pc[w] = "pl_send" /\ pc'[w] = "done"
             /\ L'[w].status = 200 /\ L'[w].body = "real") =>
               ~KillCompleted(L[w].sid)
         /\ (pc[w] = "idle" /\ L'[w].op = "playlist"
             /\ L'[w].sid \notin sessions) =>
               (pc'[w] = "done" /\ L'[w].status = 404)]_vars

\* C18: no thread holds sessions_lock while it runs kill(): the lock is held
\* only by a thread inside one of the blocks that get, pop, count or insert,
\* so a teardown in progress keeps no other thread out of the registry.
C18_KillOutsideLock ==
    /\ \A p \in Procs : pc[p] \in KillPcs => p \notin lock
    /\ \A p \in lock : lock = {p} /\ pc[p] \in LockPcs

\* C18 witness: while one thread is in kill() for a session it popped,
\* another thread is inside a "with sessions_lock:" block
C18_Witness ==
    \E p, q \in Procs :
        /\ p # q
        /\ pc[p] \in KillPcs
        /\ S[L[p].kt].pops = 1
        /\ lock = {q}

\* C19: removal comes before teardown: kill() has not been called on any
\* session that is in the registry, which still has its working directory;
\* every session kill() is running on is out of the registry, popped or
\* never registered.
C19_RemovalBeforeTeardown ==
    /\ \A i \in sessions :
          /\ S[i].kills = 0
          /\ S[i].dir
          /\ \A p \in Procs : L[p].kt # i
    /\ \A p \in Procs :
          pc[p] \in KillPcs =>
              /\ L[p].kt \notin sessions
              /\ S[L[p].kt].pops = 1 \/ ~S[L[p].kt].reg

\* C19 witness: kill() is deleting the files of a popped session while
\* another session is registered
C19_Witness ==
    \E p \in Procs, i \in Ids :
        /\ pc[p] = "k_files"
        /\ S[L[p].kt].reg
        /\ i \in sessions
        /\ i # L[p].kt

\* session i is out of the registry and kill() has run on it
Reclaimed(i) ==
    /\ i \notin sessions
    /\ S[i].pops = 1
    /\ S[i].kills = 1
    /\ S[i].proc # "run"
    /\ ~S[i].dir
    /\ \A p \in Procs : L[p].kt # i

\* C20: with the cleanup loop running and time advancing, a registered
\* session that gets no more requests (and whose last access the clock can
\* still leave 300 behind), and a registered session whose transcoder
\* exited non-zero without a segment, is eventually popped and killed by the
\* cleanup thread, without a stop.
C20_EventuallyReclaimed ==
    \A i \in Ids :
        (i \in sessions
         /\ (LastTime - S[i].last > 300
             \/ (S[i].proc = "err" /\ ~S[i].ever)))
        ~> Reclaimed(i)

\* C20 witness: the cleanup thread has reclaimed a session whose transcoder
\* had exited non-zero without a segment, before the clock moved
C20_Witness ==
    \E i \in Ids :
        /\ Reclaimed(i)
        /\ S[i].reg
        /\ S[i].terms = 0
        /\ ~S[i].ever
        /\ now = 0

\* C21: every playlist and segment request ends with a response whatever
\* the transcoder does: the segment handler makes at most 300 polls for the
\* file and at most 50 for its size, each step in a loop is one more poll
\* or the way out, and the playlist handler never stays where it is.
C21_BoundedPolls ==
    /\ [](\A w \in Workers : L[w].polls <= 300 /\ L[w].spolls <= 50)
    /\ [][\A w \in Workers :
            (L[w].op \in {"segment", "playlist"}
             /\ <<pc[w], L[w]>> # <<pc'[w], L'[w]>>) =>
                \/ pc'[w] # pc[w]
                \/ pc[w] = "sg_wait" /\ L'[w].polls = L[w].polls + 1
                \/ pc[w] = "sg_stable" /\ L'[w].spolls = L[w].spolls + 1]_vars
    /\ \A w \in Workers :
          (L[w].op \in {"segment", "playlist"}) ~> (pc[w] = "done")

\* C21 witness: the file kept growing through all 50 size polls and the
\* request ended all the same
C21_Witness ==
    \E w \in Workers :
        /\ pc[w] = "done"
        /\ L[w].op = "segment"
        /\ L[w].spolls = 50
        /\ L[w].status = 200

\* the timestamps of the keyframe packets of a listing that lie in the
\* scanned window and at or before the requested time
KeyframesUpTo(a) ==
    { a.out[k].pts : k \in { j \in 1..Len(a.out) :
                               /\ a.out[j].parts >= 2
                               /\ a.out[j].key
                               /\ a.out[j].num
                               /\ a.out[j].pts >= probe_start(a.t)
                               /\ a.out[j].pts <= a.t } }

\* C22: when the probe succeeds and the scanned window holds a keyframe with
\* a timestamp <= t, the keyframe resolver returns the greatest such
\* timestamp, also when that keyframe is at timestamp 0.
C22_GreatestKeyframe ==
    \A w \in Workers :
        (/\ pc[w] = "done"
         /\ L[w].op = "keyframe"
         /\ L[w].args.t > 0
         /\ L[w].args.rc = "ok"
         /\ KeyframesUpTo(L[w].args) # {}) =>
            \A x \in KeyframesUpTo(L[w].args) : L[w].result >= x
                /\ L[w].result \in KeyframesUpTo(L[w].args)

\* C23: the plan holds a subtitle filter exactly when a track is asked for
\* and the video is encoded anyway; a plan that copies the streams never
\* holds one; asking for a track never turns a copy plan into an encode;
\* with a start offset > 0 the filter stands between the shift by the
\* offset and its inverse.
C23_BurnInOnlyWhenEncoding ==
    \A w \in Workers :
        (pc[w] = "done" /\ L[w].op = "plan" /\ ~L[w].result.raised) =>
            LET a == L[w].args
                r == L[w].result
                plain == BuildPlan(a.profile, a.probe, a.hw, FALSE,
                                   a.sprobe, a.seek)
            IN /\ r.subs # "" <=>
                    /\ a.sub
                    /\ \/ a.profile.name # "original"
                       \/ r.vcodec # "copy"
               /\ r.vcodec = "copy" => r.subs = ""
               /\ plain.vcodec = "copy" => r.vcodec = "copy"
               /\ r.subs # "" =>
                    r.subs = IF a.seek THEN "setpts+,subtitles,setpts-"
                             ELSE "subtitles"

\* C23 witness: a pass-through plan upgraded to an encode, with a subtitle
\* track and a start offset
C23_Witness ==
    \E w \in Workers :
        /\ pc[w] = "done"
        /\ L[w].op = "plan"
        /\ ~L[w].result.raised
        /\ L[w].args.profile.name = "original"
        /\ L[w].args.sub
        /\ L[w].args.seek
        /\ L[w].result.subs = "setpts+,subtitles,setpts-"

\* C24: when the transcoder cannot be spawned, start answers 500 with the
\* probe and keyframe threads joined, the session is never in the registry
\* (and in no sweeper's or other request's hands), and its directory and
\* log are gone once kill() has run.
C24_SpawnFailureLeavesNothing ==
    /\ \A i \in 1..nalloc :
          S[i].proc = "none" =>
              /\ i \notin sessions
              /\ ~S[i].reg
              /\ S[i].pops = 0
              /\ \A p \in Procs : /\ i \notin L[p].to_kill
                                  /\ L[p].kt = i => L[p].new = i
    /\ \A w \in Workers :
          (L[w].op = "start" /\ L[w].new # 0
           /\ S[L[w].new].proc = "none") =>
              /\ pc[w] \in KillPcs \cup {"st_fail", "done"}
              /\ pc[w] \in {"st_fail", "done"} =>
                    /\ ~S[L[w].new].dir
                    /\ ~S[L[w].new].log
                    /\ S[L[w].new].kills = 1
              /\ pc[w] = "done" => /\ L[w].status = 500
                                   /\ L[w].probes = "joined"

\* C24 witness: Popen raised after the directory and the log were created,
\* and the 500 is ready
C24_Witness ==
    \E w \in Workers :
        /\ pc[w] = "done"
        /\ L[w].op = "start"
        /\ L[w].status = 500
        /\ L[w].new # 0
        /\ S[L[w].new].rms = 1

TouchPcs == {"pl_touch", "sg_touch"}

C26_LifecycleForward ==
    [][\A i \in Ids :
         /\ S'[i].proc # S[i].proc =>
               \/ /\ S[i] = NoSession
                  /\ i = nalloc + 1
                  /\ nalloc' = i
               \/ S[i].proc = "run" /\ S'[i].proc \in {"ok", "err"}
         /\ (S'[i].proc = "run" /\ i <= nalloc) => S[i].proc = "run"
         /\ S[i].kills > 0 => S'[i].proc # "run"
         /\ (i \in sessions' /\ i \notin sessions) =>
               /\ ~S[i].reg
               /\ S[i].pops = 0
               /\ S[i].kills = 0
               /\ S[i].proc # "none"
               /\ S'[i].reg
         /\ (i \in sessions /\ i \notin sessions') =>
               S'[i].pops = S[i].pops + 1
         /\ S[i].reg => S'[i].reg
         /\ S'[i].pops >= S[i].pops
         /\ S'[i].kills >= S[i].kills]_vars

\* C26 witness: one session was registered, popped and killed, and a later
\* one is registered
C26_Witness ==
    \E i, j \in Ids :
        /\ i < j
        /\ S[i].reg /\ i \notin sessions
        /\ S[i].kills > 0 /\ ~S[i].dir
        /\ j \in sessions

\* C27: every session in the registry has a spawned process, and so has
\* every session a playlist request, a stop, a replace or the sweeper took
\* from the registry: is_alive() and ffmpeg_failed() never see "no process"
\* on such a session.
C27_RegisteredHasProcess ==
    /\ \A i \in sessions : S[i].proc # "none" /\ i <= nalloc
    /\ \A p \in Procs :
          /\ (L[p].op = "playlist" /\ L[p].status # 404) =>
                S[L[p].sid].proc # "none"
          /\ L[p].replaced # 0 => S[L[p].replaced].proc # "none"
          /\ \A i \in L[p].to_kill : S[i].proc # "none"

\* C27 witness: one start failed to spawn, another session is registered
\* and a playlist request is about to call ffmpeg_failed() on it
C27_Witness ==
    /\ \E j \in 1..nalloc : S[j].proc = "none"
    /\ \E w \in Workers : /\ pc[w] = "pl_failed"
                          /\ L[w].sid \in sessions

\* C28: a start with replace=X that reaches the pop with X registered pops
\* X and runs kill() on it before anything else, whatever the request then
\* answers; the request's only other change of the registry is the
\* insertion of its new session with its 200, so after a 429 or a 500 it
\* has taken X out and put nothing in.
C28_ReplacedGoneWhateverOutcome ==
    /\ [][\A w \in Workers :
            /\ (pc[w] = "st_pop" /\ pc'[w] # "st_pop"
                /\ L[w].rep \in sessions) =>
                  /\ sessions' = sessions \ {L[w].rep}
                  /\ L'[w].replaced = L[w].rep
                  /\ pc'[w] = "k_proc" /\ L'[w].kt = L[w].rep
            /\ (L'[w].op = "start" /\ sessions' # sessions
                /\ <<pc[w], L[w]>> # <<pc'[w], L'[w]>>) =>
                  \/ pc[w] = "st_pop" /\ sessions' = sessions \ {L[w].rep}
                  \/ /\ pc[w] = "st_ins" /\ L'[w].status = 200
                     /\ sessions' = sessions \cup {L[w].new}]_vars
    /\ [](\A w \in Workers :
            (L[w].op = "start" /\ L[w].replaced # 0) =>
                LET x == L[w].replaced
                IN /\ x \notin sessions
                   /\ ~(pc[w] \in KillPcs /\ L[w].kt = x) =>
                         /\ S[x].kills >= 1
                         /\ S[x].proc # "run"
                         /\ ~S[x].dir
                   /\ pc[w] = "done" =>
                         /\ L[w].status \in {200, 429, 500}
                         /\ L[w].status \in {429, 500} =>
                               \/ L[w].new = 0
                               \/ ~S[L[w].new].reg)

\* C28 witness: the replace popped and killed X and was then refused for
\* capacity
C28_Witness ==
    \E w \in Workers :
        /\ pc[w] = "done"
        /\ L[w].op = "start"
        /\ L[w].replaced # 0
        /\ L[w].status = 429
        /\ S[L[w].replaced].kills >= 1

\* C29: a start that answers 403 or 404 does so in its first step and does
\* nothing else: the registry and every session are as before, no id is
\* taken, nothing is popped or killed; the session named by replace stays
\* registered as it was.
C29_RejectedChangesNothing ==
    [][\A w \in Workers :
         (/\ \/ (L[w].op = "start" /\ L[w].status \in {403, 404})
             \/ (L'[w].op = "start" /\ L'[w].status \in {403, 404})
          /\ <<pc[w], L[w]>> # <<pc'[w], L'[w]>>) =>
            /\ \/ (pc[w] = "idle" /\ pc'[w] = "done")
               \/ (pc[w] = "done" /\ pc'[w] = "idle")
            /\ UNCHANGED <<sessions, S, nalloc>>
            /\ pc'[w] = "done" =>
                  /\ L'[w].new = 0
                  /\ L'[w].replaced = 0
                  /\ L'[w].kt = 0
                  /\ L'[w].probes = "none"]_vars

\* C29 witness: a start naming a registered, running session in replace was
\* answered 403
C29_Witness ==
    \E w \in Workers :
        /\ pc[w] = "done"
        /\ L[w].op = "start"
        /\ L[w].status = 403
        /\ L[w].rep \in sessions
        /\ is_alive(S[L[w].rep])
        /\ S[L[w].rep].kills = 0

\* C30: the capacity check counts every registered session, whatever its
\* process did: it answers 429 exactly when the registry holds MaxSessions
\* entries or more, also when some of them exited; a session leaves the
\* registry only by a stop naming it, a replace naming it, or a sweeper pass
\* that finds it idle or failed.
C30_CapacityCountsRegistered ==
    [][/\ \A w \in Workers :
            (pc[w] = "st_cap" /\ pc'[w] # "st_cap") =>
                IF Cardinality(sessions) >= MaxSessions
                THEN pc'[w] = "done" /\ L'[w].status = 429
                ELSE pc'[w] = "st_spawn" /\ L'[w].status = 0
       /\ \A i \in sessions :
            i \notin sessions' =>
                \/ \E w \in Workers :
                      /\ pc[w] = "sp_pop" /\ pc'[w] # "sp_pop"
                      /\ L[w].op = "stop" /\ L[w].sid = i
                \/ \E w \in Workers :
                      /\ pc[w] = "st_pop" /\ pc'[w] # "st_pop"
                      /\ L[w].op = "start" /\ L[w].rep = i
                \/ /\ pc[Sweeper] = "sw_sleep" /\ pc'[Sweeper] = "sw_kill"
                   /\ now - S[i].last > IdleTTL \/ ffmpeg_failed(S[i])]_vars

\* C30 witness: a start without replace was answered 429 while the only
\* registered session's process had exited with code 0
C30_Witness ==
    \E w \in Workers :
        /\ pc[w] = "done"
        /\ L[w].op = "start"
        /\ L[w].rep = 0
        /\ L[w].status = 429
        /\ Cardinality(sessions) = MaxSessions
        /\ \E i \in sessions : S[i].proc = "ok"

====
